---- MODULE Spec2Model ----
(***************************************************************************)
(* Patna Metro API (server.js): the static network data, the route         *)
(* resolver findRoute and the GET /api/route handler that calls it.        *)
(***************************************************************************)
EXTENDS Integers, Sequences, FiniteSets, TLC

VARIABLES metroData, req, route, res, prev

vars == <<metroData, req, route, res, prev>>

(* ---------------------------- network data ---------------------------- *)

Line1 ==
  << "Danapur Cantonment", "Saguna More", "RPS More", "Patliputra",
     "Rukanpura", "Raja Bazar", "Patna Zoo", "Vikas Bhawan",
     "Vidyut Bhawan", "Patna Junction", "Mithapur", "Ramkrishna Nagar",
     "Jaganpur", "Khemni Chak" >>

Line2 ==
  << "Patna Junction", "Akashvani", "Gandhi Maidan", "PMCH",
     "Patna University", "Moin Ul Haq Stadium", "Rajendra Nagar",
     "Malahi Pakri", "Khemni Chak", "Bhoothnath", "Zero Mile", "New ISBT" >>

Line1Stations ==
  { "Danapur Cantonment", "Saguna More", "RPS More", "Patliputra",
    "Rukanpura", "Raja Bazar", "Patna Zoo", "Vikas Bhawan",
    "Vidyut Bhawan", "Patna Junction", "Mithapur", "Ramkrishna Nagar",
    "Jaganpur", "Khemni Chak" }

Line2Stations ==
  { "New ISBT", "Zero Mile", "Bhoothnath", "Malahi Pakri", "Rajendra Nagar",
    "Moin Ul Haq Stadium", "Patna University", "PMCH", "Gandhi Maidan",
    "Akashvani" }

InterchangeFlagged == { "Patna Junction", "Khemni Chak" }

\* metroData.stations: name -> { line, interchange }
Stations ==
  [ n \in Line1Stations \cup Line2Stations |->
      [ line |-> IF n \in Line1Stations THEN 1 ELSE 2,
        interchange |-> n \in InterchangeFlagged ] ]

\* metroData.lines: line id -> ordered station sequence
Lines == [ l \in {1, 2} |-> IF l = 1 THEN Line1 ELSE Line2 ]

\* metroData.interchanges, in the key order a for...in loop visits
Interchanges ==
  << [ station |-> "Patna Junction", lines |-> {1, 2} ],
     [ station |-> "Khemni Chak",    lines |-> {1, 2} ] >>

TIME_PER_STATION_MINS == 2
COST_PER_STATION_INR == 5
INTERCHANGE_TIME_MINS == 5

(* --------------------------- JavaScript values ------------------------- *)

\* null, as the value of changeAt and of a missing result
NULL == "null"

\* the value of `.line` on something that has no such property
UNDEFINED == 0

\* names every object literal inherits from Object.prototype
ObjectPrototypeKeys ==
  { "constructor", "toString", "valueOf", "hasOwnProperty", "__proto__" }

\* metroData.stations[name] is truthy
StationTruthy(md, name) ==
  name \in DOMAIN md.stations \/ name \in ObjectPrototypeKeys

\* metroData.stations[name].line
StationLine(md, name) ==
  IF name \in DOMAIN md.stations THEN md.stations[name].line ELSE UNDEFINED

Min(a, b) == IF a < b THEN a ELSE b

Max(a, b) == IF a > b THEN a ELSE b

\* Array.prototype.indexOf: 0-based position of the first match, or -1
IndexOf(s, x) ==
  IF \E i \in 1..Len(s) : s[i] = x
  THEN (CHOOSE i \in 1..Len(s) : s[i] = x /\ \A j \in 1..(i-1) : s[j] # x) - 1
  ELSE -1

\* the elements Array.prototype.slice(begin, end) selects (0-based, end exclusive)
SliceSeq(s, begin, end) ==
  LET b == IF begin < 0 THEN Max(Len(s) + begin, 0) ELSE Min(begin, Len(s))
      e == IF end < 0 THEN Max(Len(s) + end, 0) ELSE Min(end, Len(s))
  IN  IF e <= b THEN << >> ELSE SubSeq(s, b + 1, e)

ReverseSeq(s) == [ i \in 1..Len(s) |-> s[Len(s) + 1 - i] ]

(* arrays are objects on a heap: slice allocates, reverse works in place *)

LineRef(l) == IF l = 1 THEN "line1" ELSE "line2"

HeapOf(md) ==
  [ r \in {"line1", "line2", "path", "path1", "path2"} |->
      IF r = "line1" THEN md.lines[1]
      ELSE IF r = "line2" THEN md.lines[2]
      ELSE << >> ]

\* variant: splice instead of slice, which also removes the elements from src
ArraySlice_splice(h, src, dst, begin, end) ==
  LET b == Min(Max(begin, 0), Len(h[src]))
      e == Min(Max(end, b), Len(h[src]))
  IN  [ h EXCEPT ![dst] = SubSeq(h[src], b + 1, e),
                 ![src] = SubSeq(h[src], 1, b) \o SubSeq(h[src], e + 1, Len(h[src])) ]

\* dst = src.slice(begin, end): a new array, src untouched
ArraySlice(h, src, dst, begin, end) ==
  [ h EXCEPT ![dst] = SliceSeq(h[src], begin, end) ]

\* arr.reverse(): reverses the array object itself
ArrayReverse(h, arr) == [ h EXCEPT ![arr] = ReverseSeq(h[arr]) ]

(* ------------------------------ findRoute ------------------------------ *)

NullRoute == [ kind |-> "null", path |-> << >>, interchanges |-> 0, changeAt |-> NULL ]

\* a TypeError raised out of findRoute
Thrown == [ kind |-> "throw", path |-> << >>, interchanges |-> 0, changeAt |-> NULL ]

NoCall == [ kind |-> "none", path |-> << >>, interchanges |-> 0, changeAt |-> NULL ]

\* variant: the conditional reverse is forgotten
Leg_noReverse(h, src, dst, fromIndex, toIndex) ==
  ArraySlice(h, src, dst, Min(fromIndex, toIndex), Max(fromIndex, toIndex) + 1)

\* variant: slice(from, to + 1) without Math.min / Math.max
Leg_noMinMax(h, src, dst, fromIndex, toIndex) ==
  LET h1 == ArraySlice(h, src, dst, fromIndex, toIndex + 1)
  IN  IF fromIndex > toIndex THEN ArrayReverse(h1, dst) ELSE h1

\* variant: the "+ 1" of the slice end is forgotten
Leg_exclusiveEnd(h, src, dst, fromIndex, toIndex) ==
  LET h1 == ArraySlice(h, src, dst, Min(fromIndex, toIndex), Max(fromIndex, toIndex))
  IN  IF fromIndex > toIndex THEN ArrayReverse(h1, dst) ELSE h1

\* a leg: slice between the two positions, reversed when from is after to
Leg(h, src, dst, fromIndex, toIndex) ==
  LET h1 == ArraySlice(h, src, dst, Min(fromIndex, toIndex), Max(fromIndex, toIndex) + 1)
  IN  IF fromIndex > toIndex THEN ArrayReverse(h1, dst) ELSE h1

\* Case 1: same line
SameLineCase(md, h, startStation, endStation) ==
  LET l == StationLine(md, startStation)
  IN  IF l \notin DOMAIN md.lines
      THEN [ out |-> Thrown, heap |-> h ]
      ELSE LET line == LineRef(l)
               startIndex == IndexOf(h[line], startStation)
               endIndex == IndexOf(h[line], endStation)
               h1 == Leg(h, line, "path", startIndex, endIndex)
           IN  [ out |-> [ kind |-> "route", path |-> h1["path"],
                           interchanges |-> 0, changeAt |-> NULL ],
                 heap |-> h1 ]

\* variant: [...path1, ...path2], the interchange station kept twice
FullPath_keepInterchange(path1, path2) == path1 \o path2

\* [...path1, ...path2.slice(1)]
FullPath(path1, path2) == path1 \o SliceSeq(path2, 1, Len(path2))

\* variant: <= instead of <, so a later candidate wins a tie
Better_orEqual(fullPath, bestRoute) ==
  bestRoute.kind = "null" \/ Len(fullPath) <= Len(bestRoute.path)

\* !bestRoute || fullPath.length < bestRoute.path.length
Better(fullPath, bestRoute) ==
  bestRoute.kind = "null" \/ Len(fullPath) < Len(bestRoute.path)

\* Case 2: the for...in loop over metroData.interchanges, from its k-th key
RECURSIVE InterchangeLoop(_, _, _, _, _, _)
InterchangeLoop(md, h, startStation, endStation, k, bestRoute) ==
  IF k > Len(md.interchanges)
  THEN [ out |-> bestRoute, heap |-> h ]
  ELSE
    LET interchangeStation == md.interchanges[k].station
        sl == StationLine(md, startStation)
        el == StationLine(md, endStation)
    IN
    IF sl \notin DOMAIN md.lines
    THEN [ out |-> Thrown, heap |-> h ]
    ELSE
      LET line1 == LineRef(sl)
          startIndex1 == IndexOf(h[line1], startStation)
          interchangeIndex1 == IndexOf(h[line1], interchangeStation)
      IN
      IF interchangeIndex1 = -1
      THEN InterchangeLoop(md, h, startStation, endStation, k + 1, bestRoute)
      ELSE
        LET h1 == Leg(h, line1, "path1", startIndex1, interchangeIndex1)
        IN
        IF el \notin DOMAIN md.lines
        THEN [ out |-> Thrown, heap |-> h1 ]
        ELSE
          LET line2 == LineRef(el)
              interchangeIndex2 == IndexOf(h1[line2], interchangeStation)
              endIndex2 == IndexOf(h1[line2], endStation)
          IN
          IF interchangeIndex2 = -1
          THEN InterchangeLoop(md, h1, startStation, endStation, k + 1, bestRoute)
          ELSE
            LET h2 == Leg(h1, line2, "path2", interchangeIndex2, endIndex2)
                fullPath == FullPath(h2["path1"], h2["path2"])
                next == IF Better(fullPath, bestRoute)
                        THEN [ kind |-> "route", path |-> fullPath,
                               interchanges |-> 1,
                               changeAt |-> interchangeStation ]
                        ELSE bestRoute
            IN  InterchangeLoop(md, h2, startStation, endStation, k + 1, next)

\* startNode.line === endNode.line
SameLine(md, startStation, endStation) ==
  StationLine(md, startStation) = StationLine(md, endStation)

\* findRoute(startStation, endStation): the value it yields and the heap it leaves
findRoute(md, startStation, endStation) ==
  IF ~StationTruthy(md, startStation) \/ ~StationTruthy(md, endStation)
  THEN [ out |-> NullRoute, heap |-> HeapOf(md) ]
  ELSE IF SameLine(md, startStation, endStation)
  THEN SameLineCase(md, HeapOf(md), startStation, endStation)
  ELSE InterchangeLoop(md, HeapOf(md), startStation, endStation, 1, NullRoute)

(* --------------------------- GET /api/route ---------------------------- *)

\* query parameter values tried; "" stands for an absent or empty parameter
UnknownNames == { "Nonexistent Station", "patna junction", "constructor" }

QueryValues == DOMAIN Stations \cup UnknownNames \cup { "" }

NoResponse ==
  [ status |-> 0, numberOfStations |-> 0, numberOfInterchanges |-> 0,
    changeAt |-> NULL, estimatedTimeMinutes |-> 0, estimatedPriceINR |-> 0 ]

ErrorResponse(code) == [ NoResponse EXCEPT !.status = code ]

RouteResponse(r) ==
  LET numberOfStations == Len(r.path) - 1
  IN  [ status |-> 200,
        numberOfStations |-> numberOfStations,
        numberOfInterchanges |-> r.interchanges,
        changeAt |-> r.changeAt,
        estimatedTimeMinutes |->
            numberOfStations * TIME_PER_STATION_MINS
              + r.interchanges * INTERCHANGE_TIME_MINS,
        estimatedPriceINR |-> numberOfStations * COST_PER_STATION_INR ]

NoPrev == [ from |-> "", to |-> "", route |-> NoCall ]

\* no request is being handled: the handler's locals do not exist
Idle == res = NoResponse

\* the body of the handler for one request
Handle(from, to) ==
  /\ req' = [ from |-> from, to |-> to ]
  /\ IF from = "" \/ to = ""
     THEN /\ res' = ErrorResponse(400)
          /\ route' = NoCall
          /\ UNCHANGED metroData
     ELSE LET r == findRoute(metroData, from, to)
          IN  /\ route' = r.out
              /\ metroData' = [ metroData EXCEPT
                                  !.lines = [ l \in DOMAIN metroData.lines |->
                                                r.heap[LineRef(l)] ] ]
              /\ res' = IF r.out.kind = "throw" THEN ErrorResponse(500)
                        ELSE IF r.out.kind = "null" THEN ErrorResponse(404)
                        ELSE RouteResponse(r.out)

\* a request arrives and is answered
ApiRoute(from, to) ==
  /\ Idle
  /\ Handle(from, to)
  /\ prev' = NoPrev

\* the client asks for the way back; prev remembers the outward answer
ReturnTrip ==
  /\ ~Idle
  /\ prev = NoPrev
  /\ Handle(req.to, req.from)
  /\ prev' = [ from |-> req.from, to |-> req.to, route |-> route ]

\* the response is sent; nothing of the request outlives it but metroData
Finish ==
  /\ ~Idle
  /\ req' = [ from |-> "", to |-> "" ]
  /\ route' = NoCall
  /\ res' = NoResponse
  /\ prev' = NoPrev
  /\ UNCHANGED metroData

Init ==
  /\ metroData = [ stations |-> Stations, lines |-> Lines,
                   interchanges |-> Interchanges ]
  /\ req = [ from |-> "", to |-> "" ]
  /\ route = NoCall
  /\ res = NoResponse
  /\ prev = NoPrev

Next ==
  \/ \E from \in QueryValues, to \in QueryValues : ApiRoute(from, to)
  \/ ReturnTrip
  \/ Finish

Spec == Init /\ [][Next]_vars

TypeOK ==
  /\ route.kind \in { "none", "null", "route", "throw" }
  /\ res.status \in { 0, 200, 400, 404, 500 }


(* ------------------------ vocabulary of the claims --------------------- *)

\* findRoute has been called for the request in req and has ended
Called == route.kind # "none"

Valid(n) == n \in DOMAIN metroData.stations

BothValid == Valid(req.from) /\ Valid(req.to)

InLine(l, n) == \E i \in 1..Len(metroData.lines[l]) : metroData.lines[l][i] = n

\* both stations occur in the station sequence of one line
OnCommonLine(a, b) == \E l \in DOMAIN metroData.lines : InLine(l, a) /\ InLine(l, b)

\* a and b are neighbours in the station sequence of some line
Adjacent(a, b) ==
  \E l \in DOMAIN metroData.lines :
    \E i \in 1..(Len(metroData.lines[l]) - 1) :
      \/ metroData.lines[l][i] = a /\ metroData.lines[l][i + 1] = b
      \/ metroData.lines[l][i] = b /\ metroData.lines[l][i + 1] = a

\* breadth-first search: hops of a shortest walk from the frontier to target
RECURSIVE Hops(_, _, _, _)
Hops(front, seen, target, d) ==
  IF target \in front THEN d
  ELSE IF front = {} THEN -1
  ELSE LET nxt == { n \in DOMAIN metroData.stations \ seen :
                      \E m \in front : Adjacent(m, n) }
       IN  Hops(nxt, seen \cup nxt, target, d + 1)

\* stations visited by a shortest walk from a to b in the network graph
ShortestStations(a, b) == Hops({a}, {a}, b, 0) + 1

Pos(line, n) == CHOOSE i \in 1..Len(line) : line[i] = n

\* the stations of `line` from a to b inclusive, in travel order
Along(line, a, b) ==
  LET i == Pos(line, a)
      j == Pos(line, b)
  IN  [ k \in 1..((IF i <= j THEN j - i ELSE i - j) + 1) |->
          line[IF i <= j THEN i + k - 1 ELSE i - k + 1] ]

HomeLine(n) == metroData.lines[metroData.stations[n].line]

\* registry positions whose station occurs in both home-line sequences
Bridges(a, b) ==
  { k \in 1..Len(metroData.interchanges) :
      /\ \E i \in 1..Len(HomeLine(a)) : HomeLine(a)[i] = metroData.interchanges[k].station
      /\ \E i \in 1..Len(HomeLine(b)) : HomeLine(b)[i] = metroData.interchanges[k].station }

\* the two-leg path from a to b through the k-th registry station
Candidate(a, b, k) ==
  LET ic == metroData.interchanges[k].station
  IN  Along(HomeLine(a), a, ic) \o Tail(Along(HomeLine(b), ic, b))

CrossLine == BothValid /\ metroData.stations[req.from].line # metroData.stations[req.to].line

(* -------------------------------- claims ------------------------------- *)

\* C1 (as claimed): a call in which one argument is not a key of the station
\* registry ends in the invalid-station outcome (null): no path, no exception.
C1_UnknownNameIsInvalidStation ==
  (Called /\ ~BothValid) => route.kind = "null"

\* C2 (as claimed): when origin and destination both occur in the sequence of
\* one common line, the result has 0 interchanges and changeAt = null.
C2_CommonLineMeansNoInterchange ==
  (Called /\ BothValid /\ OnCommonLine(req.from, req.to))
    => (route.kind = "route" /\ route.interchanges = 0 /\ route.changeAt = NULL)

\* C4: for valid stations of one common line, the path of the return trip is
\* the exact reverse of the outward path, with the same stations-traveled count.
C4_SameLineReturnIsReverse ==
  (prev.route.kind # "none" /\ BothValid /\ OnCommonLine(req.from, req.to))
    => /\ prev.route.kind = "route"
       /\ route.kind = "route"
       /\ route.path = ReverseSeq(prev.route.path)
       /\ Len(route.path) - 1 = Len(prev.route.path) - 1

C4_Witness ==
  /\ prev.route.kind = "route"
  /\ prev.from = "PMCH" /\ prev.to = "Akashvani"
  /\ req.from = "Akashvani" /\ req.to = "PMCH"
  /\ route.kind = "route"
  /\ Len(route.path) = 3

\* C5: when findRoute(A, B) returns a route for valid A and B, findRoute(B, A)
\* returns a route with the same interchange count and the same path length.
C5_ReturnTripSymmetric ==
  (prev.route.kind = "route" /\ BothValid)
    => /\ route.kind = "route"
       /\ route.interchanges = prev.route.interchanges
       /\ Len(route.path) = Len(prev.route.path)

C5_Witness ==
  /\ prev.route.kind = "route"
  /\ prev.from = "Danapur Cantonment" /\ prev.to = "New ISBT"
  /\ route.kind = "route"
  /\ route.interchanges = 1
  /\ Len(route.path) = 17

\* C6 (as claimed): the returned path visits no more stations than a shortest
\* walk between the two stations in the network graph.
C6_RouteIsShortest ==
  (route.kind = "route" /\ BothValid)
    => Len(route.path) <= ShortestStations(req.from, req.to)

\* C7 (as claimed): findRoute("Akashvani", "PMCH") takes the same-line branch
\* on line 2 and returns a path of 2 stations with 0 interchanges.
C7_AkashvaniPMCH_TwoStations ==
  (Called /\ req.from = "Akashvani" /\ req.to = "PMCH")
    => /\ SameLine(metroData, req.from, req.to)
       /\ StationLine(metroData, req.from) = 2
       /\ route.kind = "route"
       /\ Len(route.path) = 2
       /\ route.interchanges = 0

\* C7 (amended): findRoute("Akashvani", "PMCH") takes the same-line branch on
\* line 2 and returns the 3-station path Akashvani, Gandhi Maidan, PMCH
\* (2 stations traveled) with 0 interchanges.
C7_AkashvaniPMCH_ThreeStations ==
  (Called /\ req.from = "Akashvani" /\ req.to = "PMCH")
    => /\ SameLine(metroData, req.from, req.to)
       /\ StationLine(metroData, req.from) = 2
       /\ route.kind = "route"
       /\ route.path = << "Akashvani", "Gandhi Maidan", "PMCH" >>
       /\ route.interchanges = 0
       /\ route.changeAt = NULL
       /\ res.numberOfStations = 2

C7_Witness ==
  /\ Called
  /\ req.from = "Akashvani" /\ req.to = "PMCH"
  /\ res.status = 200

\* C8: whatever calls of findRoute have been made, metroData.stations, every
\* line's station sequence and the interchange registry have their initial values.
C8_NetworkNeverChanges ==
  /\ metroData.stations = Stations
  /\ metroData.lines = Lines
  /\ metroData.interchanges = Interchanges

\* a return trip has been answered whose two legs were both sliced and reversed
C8_Witness ==
  /\ prev.route.kind = "route"
  /\ route.kind = "route"
  /\ req.from = "New ISBT" /\ req.to = "Danapur Cantonment"
  /\ route.path[1] = "New ISBT"
  /\ route.path[Len(route.path)] = "Danapur Cantonment"

\* C9: for valid stations with different home lines the result is the
\* candidate through a registry station lying on both home-line sequences that
\* has the fewest stations, the earliest such station in registry order on a
\* tie, with interchange count 1 and changeAt that station.
C9_CrossLinePicksFirstShortest ==
  (Called /\ CrossLine)
    => \E k \in Bridges(req.from, req.to) :
         /\ \A j \in Bridges(req.from, req.to) :
              Len(Candidate(req.from, req.to, k)) <= Len(Candidate(req.from, req.to, j))
         /\ \A j \in Bridges(req.from, req.to) :
              j < k => Len(Candidate(req.from, req.to, j)) > Len(Candidate(req.from, req.to, k))
         /\ route = [ kind |-> "route",
                      path |-> Candidate(req.from, req.to, k),
                      interchanges |-> 1,
                      changeAt |-> metroData.interchanges[k].station ]

\* a cross-line call in which both candidates have the same length
C9_Witness ==
  /\ Called /\ CrossLine
  /\ Bridges(req.from, req.to) = {1, 2}
  /\ Len(Candidate(req.from, req.to, 1)) = Len(Candidate(req.from, req.to, 2))
  /\ route.changeAt = "Patna Junction"

\* C10: a path returned for two valid stations starts at the origin, ends at
\* the destination, repeats no station, and steps only between neighbours of
\* some line sequence.
C10_PathWellFormed ==
  (route.kind = "route" /\ BothValid)
    => /\ Len(route.path) >= 1
       /\ route.path[1] = req.from
       /\ route.path[Len(route.path)] = req.to
       /\ \A i, j \in 1..Len(route.path) : i # j => route.path[i] # route.path[j]
       /\ \A i \in 1..(Len(route.path) - 1) : Adjacent(route.path[i], route.path[i + 1])

C10_Witness ==
  /\ route.kind = "route" /\ BothValid
  /\ route.interchanges = 1
  /\ route.changeAt = "Khemni Chak"
  /\ Len(route.path) >= 5

====
